---- MODULE Spec2Model ----
(***************************************************************************)
(* auto_rsync: a watchdog observer raises a threading.Event on every       *)
(* filesystem notification, a worker thread (RSyncThread) polls that event *)
(* and runs `rsync` once per observed trigger, and main() wires both up    *)
(* and turns SIGTERM / SIGINT into a shutdown of the worker.               *)
(*                                                                         *)
(* Three threads are modelled at the granularity of the reads and writes   *)
(* of the two shared threading.Event objects:                              *)
(*   main      mpc   main(), lines 151-196                                 *)
(*   worker    wpc   RSyncThread.run, lines 116-136                        *)
(*   observer  hpc   the watchdog thread dispatching to RSyncEventHandler  *)
(* The environment delivers signals, filesystem notifications and the      *)
(* exit of the rsync child process.                                        *)
(*                                                                         *)
(* `raise ShutdownException()` raises an old-style class (line 171); the   *)
(* model follows the interpreter the idiom is written for, where the       *)
(* instance propagates as an exception and `except ShutdownException`      *)
(* catches it.                                                             *)
(***************************************************************************)
EXTENDS Naturals, Integers, FiniteSets, Sequences, TLC

VARIABLES
    mpc,            \* position of main()
    wpc,            \* position of RSyncThread.run
    hpc,            \* position of the observer thread inside a handler
    rsync_event,    \* threading.Event shared by handler and worker
    shutdown_event, \* threading.Event shared by main and worker
    observer,       \* state of the watchdog Observer thread
    lastlog,        \* last line written by RSyncEventHandler.log
    rc,             \* return value of the last subprocess.call in run()
    which_rc,       \* return value of subprocess.call(['which', 'rsync'])
    handler,        \* the RSyncEventHandler object of main()
    sigs,           \* signals delivered to the process so far
    notifs,         \* notifications dispatched to the handler so far
    hlogs,          \* lines written by RSyncEventHandler.log so far
    hraises,        \* rsync() calls made by the on_* handlers so far
    runs,           \* rsync commands started by the worker so far
    sinceRaise,     \* passes begun (line 121 reached) since the last rsync()
    sinceClear,     \* rsync() calls since the last rsync_event.clear()
    raced,          \* an rsync() was made between the test of line 118 and line 121
    inflight        \* rsync child processes started and not yet exited

vars == <<mpc, wpc, hpc, rsync_event, shutdown_event, observer, lastlog, rc,
          which_rc, handler,
          sigs, notifs, hlogs, hraises, runs, sinceRaise, sinceClear, raced,
          inflight>>

\* ------------------------------------------------------------------ bounds
MaxNotifications == 2
MaxSignals == 2
\* saturation point of the run counters (never reached by the code itself)
MaxRuns == MaxNotifications + 3

\* --------------------------------------------------------------- constants
SIGINT == 2
SIGTERM == 15
Signals == {SIGTERM, SIGINT}

\* ------------------------------------------------------- threading.Event
\* An Event that has not been constructed yet is "none".
NewEvent == "clear"
\* fault variant: a second set() undoes the first
set_twice_toggles(e) == IF e = "set" THEN "clear" ELSE "set"
set(e) == "set"
\* fault variant: clear() leaves the flag as it is
clear_keeps(e) == e
clear(e) == "clear"
is_set(e) == e = "set"

Sat(n) == IF n < MaxRuns THEN n + 1 ELSE MaxRuns

\* _get_what(event)
_get_what(is_directory) == IF is_directory THEN "directory" ELSE "file"

NoLog == [text |-> "", what |-> "", paths |-> 0, color |-> ""]

\* ---------------------------------------------------------------- Init
Init ==
    /\ mpc = "which"
    /\ wpc = "unstarted"
    /\ hpc = "idle"
    /\ rsync_event = "none"
    /\ shutdown_event = "none"
    /\ observer = "none"
    /\ lastlog = NoLog
    /\ rc = -1
    /\ which_rc = -1
    /\ handler = "none"
    /\ sigs = 0
    /\ notifs = 0
    /\ hlogs = 0
    /\ hraises = 0
    /\ runs = 0
    /\ sinceRaise = 0
    /\ sinceClear = 0
    /\ raced = FALSE
    /\ inflight = 0

\* The process is gone once main() has ended and no non-daemon thread is left;
\* the daemon observer thread dies with it.
MainEnded == mpc \in {"exit1", "crashed", "returned"}
ProcessExited == MainEnded /\ wpc \in {"unstarted", "done"}
\* how main() ended: sys.exit(1) or an uncaught exception give 1, a return 0
ExitStatus == IF mpc \in {"exit1", "crashed"} THEN 1 ELSE IF mpc = "returned" THEN 0 ELSE -1

\* rsync() is called once by the constructor and once by every handler call
Raises == hraises + (IF handler = "constructed" THEN 1 ELSE 0)

ghosts == <<sigs, notifs, hlogs, hraises, runs, sinceRaise, sinceClear, raced>>
fixed == <<which_rc, handler>>

\* ------------------------------------------------ RSyncEventHandler.rsync
\* lines 98-99: self.rsync_event.set(), with the history counters it resets.
rsync ==
    /\ rsync_event' = set(rsync_event)
    /\ sinceRaise' = 0
    /\ sinceClear' = sinceClear + 1
    /\ raced' = (wpc = "clear")

\* lines 46-48: RSyncEventHandler.log writes one line
log(line) ==
    /\ hlogs' = hlogs + 1
    /\ lastlog' = line

\* ------------------------------------------------------------------ main
\* lines 155-161: subprocess.call(['which', 'rsync']) != 0 -> print, sys.exit(1)
\* fault variant: the result of the check is not acted upon
main_which_goes_on(status) ==
    /\ mpc = "which"
    /\ which_rc' = status
    /\ mpc' = "events"
    /\ UNCHANGED <<wpc, hpc, rsync_event, shutdown_event, observer, lastlog, rc, inflight,
                   handler, ghosts>>
main_which(status) ==
    /\ mpc = "which"
    /\ which_rc' = status
    /\ mpc' = IF status # 0 THEN "exit1" ELSE "events"
    /\ UNCHANGED <<wpc, hpc, rsync_event, shutdown_event, observer, lastlog, rc, inflight,
                   handler, ghosts>>

\* lines 163-169: the options are read (no shared state) and the two Events
\* are constructed
main_events ==
    /\ mpc = "events"
    /\ rsync_event' = NewEvent
    /\ shutdown_event' = NewEvent
    /\ mpc' = "signal"
    /\ UNCHANGED <<wpc, hpc, observer, lastlog, rc, inflight, fixed, ghosts>>

\* lines 178-179: signal.signal(SIGTERM, shutdown); signal.signal(SIGINT, shutdown)
main_signal ==
    /\ mpc = "signal"
    /\ mpc' = "start_worker"
    /\ UNCHANGED <<wpc, hpc, rsync_event, shutdown_event, observer, lastlog, rc, inflight,
                   fixed, ghosts>>

\* lines 181-183: rsync = RSyncThread(...); rsync.start()
\* fault variant: main goes on without having started the thread
main_start_worker_skipped ==
    /\ mpc = "start_worker"
    /\ mpc' = "handler"
    /\ UNCHANGED <<wpc, hpc, rsync_event, shutdown_event, observer, lastlog, rc,
                   inflight, fixed, ghosts>>
main_start_worker ==
    /\ mpc = "start_worker"
    /\ wpc' = "outer"
    /\ mpc' = "handler"
    /\ UNCHANGED <<hpc, rsync_event, shutdown_event, observer, lastlog, rc, inflight,
                   fixed, ghosts>>

\* lines 185-186 and 39-44: RSyncEventHandler(...) ends with self.rsync()
\* fault variant: the constructor without its self.rsync()
RSyncEventHandler_init_no_rsync ==
    /\ mpc = "handler"
    /\ handler' = "constructed"
    /\ mpc' = "schedule"
    /\ UNCHANGED <<wpc, hpc, rsync_event, shutdown_event, observer, lastlog, rc, inflight,
                   which_rc, ghosts>>
RSyncEventHandler_init ==
    /\ mpc = "handler"
    /\ handler' = "constructed"
    /\ rsync
    /\ mpc' = "schedule"
    /\ UNCHANGED <<wpc, hpc, shutdown_event, observer, lastlog, rc, inflight, which_rc,
                   sigs, notifs, hlogs, hraises, runs>>

\* lines 187-188: Observer(timeout=...); observer.schedule(...)
main_schedule ==
    /\ mpc = "schedule"
    /\ observer' = "scheduled"
    /\ mpc' = "observer_start"
    /\ UNCHANGED <<wpc, hpc, rsync_event, shutdown_event, lastlog, rc, inflight, fixed, ghosts>>

\* line 189: observer.start()
main_observer_start ==
    /\ mpc = "observer_start"
    /\ observer' = "running"
    /\ mpc' = "try"
    /\ UNCHANGED <<wpc, hpc, rsync_event, shutdown_event, lastlog, rc, inflight, fixed, ghosts>>

\* lines 174-176: the handler of SIGTERM and SIGINT raises ShutdownException in
\* the main thread, wherever main() is. Only the try block of lines 190-192
\* catches it (line 193); anywhere else it propagates out of main().
HandlersInstalled ==
    mpc \in {"start_worker", "handler", "schedule", "observer_start", "try",
             "except", "stop", "join"}
shutdown(signum) ==
    /\ HandlersInstalled
    /\ sigs < MaxSignals
    /\ sigs' = sigs + 1
    /\ mpc' = IF mpc = "try" THEN "except" ELSE "crashed"
    /\ UNCHANGED <<wpc, hpc, rsync_event, shutdown_event, observer, lastlog, rc, inflight,
                   fixed, notifs, hlogs, hraises, runs, sinceRaise, sinceClear, raced>>

\* line 194: shutdown_event.set()
\* fault variant: setting shutdown_event also ends a run in progress
main_except_kills_run ==
    /\ mpc = "except"
    /\ shutdown_event' = set(shutdown_event)
    /\ wpc' = IF wpc = "running" THEN "done" ELSE wpc
    /\ mpc' = "stop"
    /\ UNCHANGED <<hpc, rsync_event, observer, lastlog, rc, inflight, fixed, ghosts>>
main_except ==
    /\ mpc = "except"
    /\ shutdown_event' = set(shutdown_event)
    /\ mpc' = "stop"
    /\ UNCHANGED <<wpc, hpc, rsync_event, observer, lastlog, rc, inflight, fixed, ghosts>>

\* line 195: observer.stop()
main_observer_stop ==
    /\ mpc = "stop"
    /\ observer' = "stopping"
    /\ mpc' = "join"
    /\ UNCHANGED <<wpc, hpc, rsync_event, shutdown_event, lastlog, rc, inflight, fixed, ghosts>>

\* line 196: observer.join() returns once the observer thread has ended
main_observer_join ==
    /\ mpc = "join"
    /\ observer = "stopped"
    /\ mpc' = "returned"
    /\ UNCHANGED <<wpc, hpc, rsync_event, shutdown_event, observer, lastlog, rc, inflight,
                   fixed, ghosts>>

\* -------------------------------------------------------- observer thread
\* The observer thread leaves its loop after stop(), between two dispatches.
observer_exit ==
    /\ observer = "stopping"
    /\ hpc = "idle"
    /\ observer' = "stopped"
    /\ UNCHANGED <<mpc, wpc, hpc, rsync_event, shutdown_event, lastlog, rc, inflight,
                   fixed, ghosts>>

\* The running observer thread takes one notification and calls its on_*
\* method; a handler runs to its end before the next one is called.
Dispatched ==
    /\ observer = "running"
    /\ hpc = "idle"
    /\ ~ProcessExited
    /\ notifs < MaxNotifications
    /\ notifs' = notifs + 1

\* lines 50-61: what = _get_what(event); self.log('Moved ...', BLUE)
\* fault variant: source and destination logged as two lines
on_moved_logs_twice(is_directory) ==
    /\ Dispatched
    /\ hlogs' = hlogs + 2
    /\ lastlog' = [text |-> "Moved", what |-> _get_what(is_directory), paths |-> 2,
                   color |-> "BLUE"]
    /\ hpc' = "rsync"
    /\ UNCHANGED <<mpc, wpc, rsync_event, shutdown_event, observer, rc, inflight, fixed,
                   sigs, hraises, runs, sinceRaise, sinceClear, raced>>
on_moved(is_directory) ==
    /\ Dispatched
    /\ log([text |-> "Moved", what |-> _get_what(is_directory), paths |-> 2,
            color |-> "BLUE"])
    /\ hpc' = "rsync"
    /\ UNCHANGED <<mpc, wpc, rsync_event, shutdown_event, observer, rc, inflight, fixed,
                   sigs, hraises, runs, sinceRaise, sinceClear, raced>>

\* lines 65-72: self.log('Created ...', GREEN)
on_created(is_directory) ==
    /\ Dispatched
    /\ log([text |-> "Created", what |-> _get_what(is_directory), paths |-> 1,
            color |-> "GREEN"])
    /\ hpc' = "rsync"
    /\ UNCHANGED <<mpc, wpc, rsync_event, shutdown_event, observer, rc, inflight, fixed,
                   sigs, hraises, runs, sinceRaise, sinceClear, raced>>

\* lines 76-83: self.log('Deleted ...', RED)
on_deleted(is_directory) ==
    /\ Dispatched
    /\ log([text |-> "Deleted", what |-> _get_what(is_directory), paths |-> 1,
            color |-> "RED"])
    /\ hpc' = "rsync"
    /\ UNCHANGED <<mpc, wpc, rsync_event, shutdown_event, observer, rc, inflight, fixed,
                   sigs, hraises, runs, sinceRaise, sinceClear, raced>>

\* lines 87-94: self.log('Modified ...', YELLOW)
on_modified(is_directory) ==
    /\ Dispatched
    /\ log([text |-> "Modified", what |-> _get_what(is_directory), paths |-> 1,
            color |-> "YELLOW"])
    /\ hpc' = "rsync"
    /\ UNCHANGED <<mpc, wpc, rsync_event, shutdown_event, observer, rc, inflight, fixed,
                   sigs, hraises, runs, sinceRaise, sinceClear, raced>>

\* lines 63, 74, 85, 96: the last statement of every handler, self.rsync()
\* fault variant: rsync() waits for a run in progress to finish
handler_rsync_waits_for_run ==
    /\ hpc = "rsync"
    /\ ~ProcessExited
    /\ wpc # "running"
    /\ rsync
    /\ hraises' = hraises + 1
    /\ hpc' = "idle"
    /\ UNCHANGED <<mpc, wpc, shutdown_event, observer, lastlog, rc, inflight, fixed,
                   sigs, notifs, hlogs, runs>>
handler_rsync ==
    /\ hpc = "rsync"
    /\ ~ProcessExited
    /\ rsync
    /\ hraises' = hraises + 1
    /\ hpc' = "idle"
    /\ UNCHANGED <<mpc, wpc, shutdown_event, observer, lastlog, rc, inflight, fixed,
                   sigs, notifs, hlogs, runs>>

\* ------------------------------------------------------- RSyncThread.run
\* line 117: while not self.shutdown_event.is_set()
run_outer ==
    /\ wpc = "outer"
    /\ wpc' = IF is_set(shutdown_event) THEN "done" ELSE "inner_shutdown"
    /\ UNCHANGED <<mpc, hpc, rsync_event, shutdown_event, observer, lastlog, rc, inflight,
                   fixed, ghosts>>

\* line 118, left operand: not self.shutdown_event.is_set()
\* fault variant: the inner loop waits for rsync_event only
run_inner_shutdown_unseen ==
    /\ wpc = "inner_shutdown"
    /\ wpc' = "inner_rsync"
    /\ UNCHANGED <<mpc, hpc, rsync_event, shutdown_event, observer, lastlog, rc, inflight,
                   fixed, ghosts>>
run_inner_shutdown ==
    /\ wpc = "inner_shutdown"
    /\ wpc' = IF is_set(shutdown_event) THEN "clear" ELSE "inner_rsync"
    /\ UNCHANGED <<mpc, hpc, rsync_event, shutdown_event, observer, lastlog, rc, inflight,
                   fixed, ghosts>>

\* line 118, right operand: not self.rsync_event.is_set(); line 119: sleep
\* fault variant: the inner loop waits for shutdown_event only
run_inner_rsync_unseen ==
    /\ wpc = "inner_rsync"
    /\ wpc' = "inner_shutdown"
    /\ UNCHANGED <<mpc, hpc, rsync_event, shutdown_event, observer, lastlog, rc, inflight,
                   fixed, ghosts>>
run_inner_rsync ==
    /\ wpc = "inner_rsync"
    /\ wpc' = IF is_set(rsync_event) THEN "clear" ELSE "inner_shutdown"
    /\ UNCHANGED <<mpc, hpc, rsync_event, shutdown_event, observer, lastlog, rc, inflight,
                   fixed, ghosts>>

\* line 121: self.rsync_event.clear(); from here on the pass is under way
\* fault variant: line 121 without effect on the flag
run_clear_keeps ==
    /\ wpc = "clear"
    /\ rsync_event' = clear_keeps(rsync_event)
    /\ sinceClear' = 0
    /\ raced' = FALSE
    /\ sinceRaise' = Sat(sinceRaise)
    /\ wpc' = "call"
    /\ UNCHANGED <<mpc, hpc, shutdown_event, observer, lastlog, rc, inflight, fixed,
                   sigs, notifs, hlogs, hraises, runs>>
run_clear ==
    /\ wpc = "clear"
    /\ rsync_event' = clear(rsync_event)
    /\ sinceClear' = 0
    /\ raced' = FALSE
    /\ sinceRaise' = Sat(sinceRaise)
    /\ wpc' = "call"
    /\ UNCHANGED <<mpc, hpc, shutdown_event, observer, lastlog, rc, inflight, fixed,
                   sigs, notifs, hlogs, hraises, runs>>

\* lines 122-136: the command is built, logged and started; subprocess.call
\* then blocks the worker until the child exits
\* fault variant: the command is started without waiting for it (Popen)
run_call_detached ==
    /\ wpc = "call"
    /\ runs' = Sat(runs)
    /\ inflight' = inflight + 1
    /\ wpc' = "outer"
    /\ UNCHANGED <<mpc, hpc, rsync_event, shutdown_event, observer, lastlog, rc,
                   fixed, sigs, notifs, hlogs, hraises, sinceRaise, sinceClear,
                   raced>>
run_call ==
    /\ wpc = "call"
    /\ runs' = Sat(runs)
    /\ inflight' = inflight + 1
    /\ wpc' = "running"
    /\ UNCHANGED <<mpc, hpc, rsync_event, shutdown_event, observer, lastlog, rc,
                   fixed, sigs, notifs, hlogs, hraises, sinceRaise, sinceClear,
                   raced>>

\* lines 131-136: the child exits with some status; subprocess.call returns it
\* and the loop goes back to line 117 without looking at it
\* fault variant: a failed command is run again at once
run_return_retries_on_failure(status) ==
    /\ wpc = "running"
    /\ rc' = status
    /\ inflight' = inflight - 1
    /\ wpc' = IF status = 0 THEN "outer" ELSE "clear"
    /\ UNCHANGED <<mpc, hpc, rsync_event, shutdown_event, observer, lastlog,
                   fixed, ghosts>>
\* fault variant: a failed command ends the thread
run_return_stops_on_failure(status) ==
    /\ wpc = "running"
    /\ rc' = status
    /\ inflight' = inflight - 1
    /\ wpc' = IF status = 0 THEN "outer" ELSE "done"
    /\ UNCHANGED <<mpc, hpc, rsync_event, shutdown_event, observer, lastlog,
                   fixed, ghosts>>
run_return(status) ==
    /\ wpc = "running"
    /\ rc' = status
    /\ inflight' = inflight - 1
    /\ wpc' = "outer"
    /\ UNCHANGED <<mpc, hpc, rsync_event, shutdown_event, observer, lastlog,
                   fixed, ghosts>>

\* ------------------------------------------------------------------ Next
Main ==
    \/ \E status \in {0, 1} : main_which(status)
    \/ main_events
    \/ main_signal
    \/ main_start_worker
    \/ RSyncEventHandler_init
    \/ main_schedule
    \/ main_observer_start
    \/ main_except
    \/ main_observer_stop
    \/ main_observer_join

Next ==
    \/ \E status \in {0, 1} : main_which(status)
    \/ main_events
    \/ main_signal
    \/ main_start_worker
    \/ RSyncEventHandler_init
    \/ main_schedule
    \/ main_observer_start
    \/ \E signum \in Signals : shutdown(signum)
    \/ main_except
    \/ main_observer_stop
    \/ main_observer_join
    \/ observer_exit
    \/ \E d \in BOOLEAN : on_moved(d)
    \/ \E d \in BOOLEAN : on_created(d)
    \/ \E d \in BOOLEAN : on_deleted(d)
    \/ \E d \in BOOLEAN : on_modified(d)
    \/ handler_rsync
    \/ run_outer
    \/ run_inner_shutdown
    \/ run_inner_rsync
    \/ run_clear
    \/ run_call
    \/ \E status \in {0, 1} : run_return(status)

Spec == Init /\ [][Next]_vars

\* Every thread that can run is eventually scheduled, and every rsync child
\* eventually exits. Signals and notifications are up to the environment.
Fairness ==
    /\ WF_vars(Main)
    /\ WF_vars(run_outer)
    /\ WF_vars(run_inner_shutdown)
    /\ WF_vars(run_inner_rsync)
    /\ WF_vars(run_clear)
    /\ WF_vars(run_call)
    /\ WF_vars(\E status \in {0, 1} : run_return(status))
    /\ WF_vars(handler_rsync)
    /\ WF_vars(observer_exit)

FairSpec == Spec /\ Fairness

TypeOK ==
    /\ mpc \in {"which", "exit1", "events", "signal", "start_worker", "handler",
                "schedule", "observer_start", "try", "except", "stop", "join",
                "returned", "crashed"}
    /\ wpc \in {"unstarted", "outer", "inner_shutdown", "inner_rsync", "clear",
                "call", "running", "done"}
    /\ hpc \in {"idle", "rsync"}
    /\ rsync_event \in {"none", "clear", "set"}
    /\ shutdown_event \in {"none", "clear", "set"}
    /\ observer \in {"none", "scheduled", "running", "stopping", "stopped"}
    /\ rc \in {-1, 0, 1}
    /\ which_rc \in {-1, 0, 1}
    /\ handler \in {"none", "constructed"}
    /\ sigs \in 0..MaxSignals
    /\ notifs \in 0..MaxNotifications
    /\ hlogs \in 0..MaxNotifications
    /\ hraises \in 0..MaxNotifications
    /\ runs \in 0..MaxRuns
    /\ sinceRaise \in 0..MaxRuns
    /\ sinceClear \in 0..(MaxNotifications + 1)
    /\ raced \in BOOLEAN
    /\ inflight \in 0..1

\* ================================================================ claims

\* C1: no change is lost. Under FairSpec, whenever some rsync() has completed
\* that no pass has covered yet, then, unless shutdown_event gets set, a pass
\* begun after that rsync() comes to run its rsync command; and a test of the
\* flag (line 118) made after an rsync() that no clear() has consumed always
\* sees the flag.
C1_NoLostChange ==
    /\ (Raises > 0 /\ sinceRaise = 0)
         ~> ((sinceRaise > 0 /\ wpc = "running") \/ is_set(shutdown_event))
    /\ [][(wpc = "inner_rsync" /\ wpc' = "inner_shutdown") => sinceClear = 0]_vars
\* a notification arrived, and a pass begun after its rsync() is running
C1_Witness ==
    /\ hraises > 0
    /\ hpc = "idle"
    /\ sinceRaise = 1
    /\ wpc = "running"
    /\ ~is_set(shutdown_event)

\* C2: once shutdown_event is set the worker starts no rsync command any more.
C2_NoRunAfterShutdown ==
    [][is_set(shutdown_event) => (runs' = runs)]_vars

\* C3: burst. While shutdown_event is not set, at most one pass is begun after
\* the last rsync() (never K), and, under FairSpec, rsync() calls that arrive
\* while a pass is under way (flag cleared, command not yet returned) are
\* followed by one more pass (never zero) unless shutdown_event gets set.
C3_BurstOneRun ==
    /\ [](~is_set(shutdown_event) => sinceRaise <= 1)
    /\ (wpc \in {"call", "running"} /\ Raises > 0 /\ sinceRaise = 0)
         ~> ((sinceRaise = 1 /\ wpc = "running") \/ is_set(shutdown_event))
\* two notifications made their rsync() calls after the flag was cleared for
\* the first pass and before its command has returned
C3_Witness ==
    /\ wpc = "running"
    /\ runs = 1
    /\ sinceClear = 2
    /\ sinceRaise = 0
    /\ hpc = "idle"
    /\ ~is_set(shutdown_event)

\* C4: initial sync. As long as no notification was dispatched and no signal
\* was delivered, at most one rsync command has been started, and, under
\* FairSpec, once `which rsync` has succeeded one is started (or a
\* notification or a signal arrives first).
C4_InitialSyncOnce ==
    /\ []((notifs = 0 /\ sigs = 0) => runs <= 1)
    /\ (which_rc = 0) ~> (runs >= 1 \/ notifs > 0 \/ sigs > 0)
\* the one initial run is over and the worker polls again, nothing else happened
C4_Witness ==
    /\ notifs = 0
    /\ sigs = 0
    /\ runs = 1
    /\ rc # -1
    /\ mpc = "try"
    /\ wpc = "inner_rsync"
    /\ ~is_set(rsync_event)

\* C5: coalescing. The flag is set exactly when at least one rsync() was made
\* since the last clear(): N >= 1 calls leave it set once, and after the clear()
\* it stays unset until the next rsync().
C5_Coalescing ==
    is_set(rsync_event) <=> sinceClear >= 1
\* two rsync() calls are pending and the worker is about to clear the flag
C5_Witness ==
    /\ sinceClear >= 2
    /\ wpc = "clear"
    /\ is_set(rsync_event)

\* C6: every signal delivered after the handlers are installed leads to
\* shutdown_event set, the observer stopped and the worker terminated. Stated
\* for the signals that find the worker started (a signal before rsync.start()
\* ends the process with no worker to terminate).
C6_SignalLeadsToShutdown ==
    (sigs > 0 /\ wpc # "unstarted")
        ~> (/\ is_set(shutdown_event)
            /\ observer \in {"stopping", "stopped"}
            /\ wpc = "done")

\* C7: a run in progress is never aborted. The worker leaves subprocess.call
\* only by the return of the command, which takes it to the loop test of line
\* 117 in a step that leaves main() and both events alone; and it terminates
\* only from that loop test, having seen shutdown_event set.
C7_RunNotAborted ==
    /\ [][(wpc = "running" /\ wpc' # "running")
            => (wpc' = "outer" /\ rc' \in {0, 1}
                /\ UNCHANGED <<mpc, shutdown_event, rsync_event>>)]_vars
    /\ [][(wpc' = "done" /\ wpc # "done")
            => (wpc = "outer" /\ is_set(shutdown_event))]_vars
\* shutdown_event was set during a run; the run has returned and the worker is
\* at the loop test
C7_Witness ==
    /\ is_set(shutdown_event)
    /\ sigs = 1
    /\ runs = 1
    /\ rc # -1
    /\ wpc = "outer"

\* C8: under FairSpec, once shutdown_event is set the worker terminates.
C8_ShutdownTerminatesWorker ==
    is_set(shutdown_event) ~> (wpc = "done")
\* the worker has terminated with the flag still pending
C8_Witness ==
    /\ is_set(shutdown_event)
    /\ is_set(rsync_event)
    /\ wpc = "done"

\* C9: fail fast. If `which rsync` returned non-zero, main() has exited with
\* status 1 and no event was created, no worker and no observer was started,
\* no rsync() was called and no rsync command was run.
C9_FailFast ==
    which_rc \notin {-1, 0} =>
        /\ mpc = "exit1"
        /\ ExitStatus = 1
        /\ rsync_event = "none"
        /\ shutdown_event = "none"
        /\ wpc = "unstarted"
        /\ observer = "none"
        /\ handler = "none"
        /\ Raises = 0
        /\ runs = 0
C9_Witness ==
    /\ which_rc = 1
    /\ mpc = "exit1"

\* C10: every notification makes its handler write exactly one line and then
\* call rsync() exactly once, whatever its kind; the logging step changes
\* nothing but the log, the rsync() step nothing but rsync_event, which it
\* leaves set; a move is logged with both paths.
C10_OneLogOneRaise ==
    /\ [](/\ hlogs = notifs
          /\ hraises = notifs - (IF hpc = "rsync" THEN 1 ELSE 0)
          /\ (lastlog.text = "Moved" <=> lastlog.paths = 2))
    /\ [][(notifs' # notifs)
            => (/\ hlogs' = hlogs + 1
                /\ hpc = "idle" /\ hpc' = "rsync"
                /\ UNCHANGED <<rsync_event, shutdown_event, mpc, wpc, observer,
                               hraises>>)]_vars
    /\ [][(hpc = "rsync" /\ hpc' = "idle")
            => (/\ hraises' = hraises + 1
                /\ is_set(rsync_event')
                /\ UNCHANGED <<shutdown_event, mpc, wpc, observer, lastlog,
                               hlogs>>)]_vars
\* a move of a directory was logged and its rsync() has been made
C10_Witness ==
    /\ lastlog.text = "Moved"
    /\ lastlog.what = "directory"
    /\ hpc = "idle"
    /\ hraises = notifs
    /\ is_set(rsync_event)

\* C11: the watcher is never blocked by the worker. As long as the process
\* lives, a handler that has logged can make its rsync() in every position of
\* the worker, and the running observer can dispatch (and log) a notification
\* of every kind in every position of the worker.
C11_WatcherNeverBlocked ==
    /\ (hpc = "rsync" /\ ~ProcessExited) => ENABLED handler_rsync
    /\ (observer = "running" /\ hpc = "idle" /\ notifs < MaxNotifications
        /\ ~ProcessExited)
         => \A d \in BOOLEAN : /\ ENABLED on_moved(d)
                               /\ ENABLED on_created(d)
                               /\ ENABLED on_deleted(d)
                               /\ ENABLED on_modified(d)
\* a notification was logged and made its rsync() while the first run is
\* still in progress
C11_Witness ==
    /\ wpc = "running"
    /\ runs = 1
    /\ hlogs >= 1
    /\ hraises = hlogs
    /\ sinceRaise = 0
    /\ is_set(rsync_event)

\* C12: take() is atomic. An rsync() made after the worker's test of line 118
\* and before its clear() of line 121 is still pending after that clear().
C12_RaiseDuringTakeKept ==
    [][(wpc = "clear" /\ wpc' = "call" /\ raced) => is_set(rsync_event')]_vars

\* C13: no spurious run. The worker has started at most as many rsync
\* commands as rsync() calls were made.
C13_NoSpuriousRun ==
    runs <= Raises

\* C14: a failed run changes nothing. After a command that returned non-zero
\* the worker is terminated only if shutdown_event is set, the flag is set
\* only if an rsync() was made since the last clear(), and without such an
\* rsync() and without shutdown the worker does not begin another pass.
C14_FailureIgnored ==
    rc = 1 =>
        /\ (wpc = "done" => is_set(shutdown_event))
        /\ (sinceClear = 0 => ~is_set(rsync_event))
        /\ ((sinceClear = 0 /\ ~is_set(shutdown_event)) => wpc # "clear")
        /\ inflight = (IF wpc = "running" THEN 1 ELSE 0)
\* the only run failed, nothing else happened, and the worker polls again
C14_Witness ==
    /\ rc = 1
    /\ runs = 1
    /\ sinceRaise = 1
    /\ wpc = "inner_rsync"
    /\ ~is_set(rsync_event)
    /\ ~is_set(shutdown_event)

\* C15: startup order. Whenever an rsync() has been made, the handler exists
\* or the observer has been created, the worker thread has been started.
C15_WorkerStartedFirst ==
    (Raises > 0 \/ handler # "none" \/ observer # "none" \/ is_set(rsync_event))
        => wpc # "unstarted"
\* the initial rsync() is pending, the observer is not started yet and the
\* worker already polls
C15_Witness ==
    /\ mpc = "schedule"
    /\ Raises = 1
    /\ observer = "none"
    /\ wpc = "inner_rsync"

\* C16: shutdown ordering. main() has returned from its shutdown path only if
\* the worker is terminated.
C16_MainWaitsForWorker ==
    mpc = "returned" => wpc = "done"

\* C17: shutdown_event is the only thing that stops the worker. A terminated
\* worker implies shutdown_event set, and the worker terminates only in a step
\* of the loop test of line 117.
C17_OnlyShutdownStops ==
    /\ [](wpc = "done" => is_set(shutdown_event))
    /\ [][(wpc' = "done" /\ wpc # "done") => (wpc = "outer" /\ UNCHANGED rc)]_vars
\* notifications arrived and a run failed, yet the worker terminated only
\* after the signal
C17_Witness ==
    /\ wpc = "done"
    /\ is_set(shutdown_event)
    /\ rc = 1
    /\ hraises >= 1
    /\ sigs = 1

\* C18: at most one rsync child is in flight, it is in flight exactly while
\* the worker is blocked in subprocess.call, and a command is started only
\* with none in flight.
C18_OneRunInFlight ==
    /\ [](inflight <= 1 /\ (inflight = 1 <=> wpc = "running"))
    /\ [][(runs' # runs) => (inflight = 0 /\ inflight' = 1)]_vars
\* a second run is in flight while another rsync() is already pending
C18_Witness ==
    /\ inflight = 1
    /\ runs = 2
    /\ sinceClear >= 1
    /\ is_set(rsync_event)
    /\ ~is_set(shutdown_event)

====
